---- MODULE Spec2Model ----
(***************************************************************************)
(* MyLinearSimilarity (allennlp/modules/similarity_functions/mylinear.py): *)
(* construction, from_params, reset_parameters and forward, with the       *)
(* torch tensor operations forward is built from.                          *)
(*                                                                         *)
(* Strings are sequences of one-character strings, tensors are nested      *)
(* sequences of integers ([batch][position][feature]), and a real weight   *)
(* is the integer number of 1/Scale units it holds.                        *)
(***************************************************************************)
EXTENDS Integers, Sequences, FiniteSets

VARIABLES
    status,     \* per scorer object: "none", "failed" (constructor raised), "ready"
    self,       \* per scorer object: the attributes set on it so far
    call,       \* the last operation called, on which object, with which arguments
    ret         \* what that call returned or raised

vars == <<status, self, call, ret>>

---------------------------------------------------------------------------
\* Bounds of the model

MaxDim == 2
MaxLen == 2
MaxBatch == 2
MaxAbsParam == 1
Scale == 1

Scorers == {1, 2}

---------------------------------------------------------------------------
\* Strings and the combination mini-language

Combo_x_y == <<"x", ",", "y">>
Combo_x_y_xy == <<"x", ",", "y", ",", "x", "*", "y">>
Combo_xy == <<"x", "*", "y">>
Combo_x_z == <<"x", ",", "z">>
Combo_sum_diff_quot == <<"x", "+", "y", ",", "x", "-", "y", ",", "x", "/", "y">>
Combo_four == <<"x", ",", "y", ",", "x", "*", "y", ",", "x", "-", "y">>

Combinations ==
    {Combo_x_y, Combo_x_y_xy, Combo_xy, Combo_x_z, Combo_sum_diff_quot, Combo_four}

DefaultCombination == Combo_x_y

RECURSIVE SplitAcc(_, _, _)
SplitAcc(s, cur, acc) ==
    IF s = <<>> THEN Append(acc, cur)
    ELSE IF Head(s) = "," THEN SplitAcc(Tail(s), <<>>, Append(acc, cur))
    ELSE SplitAcc(Tail(s), Append(cur, Head(s)), acc)

\* combination.split(',')
Split(s) == SplitAcc(s, <<>>, <<>>)

UnaryX == <<"x">>
UnaryY == <<"y">>
BinaryTokens ==
    {<<"x", "*", "y">>, <<"x", "+", "y">>, <<"x", "-", "y">>, <<"x", "/", "y">>}
RecognizedTokens == {UnaryX, UnaryY} \cup BinaryTokens

Ok(v) == [err |-> "none", val |-> v]
Raise(e) == [err |-> e, val |-> <<>>]

\* The dimension one combination token contributes.
CombinationDim(piece, dims) ==
    IF piece = UnaryX THEN Ok(dims[1])
    ELSE IF piece = UnaryY THEN Ok(dims[2])
    ELSE IF piece \in BinaryTokens
         THEN IF dims[1] = dims[2] THEN Ok(dims[1]) ELSE Raise("ConfigurationError")
         ELSE Raise("ConfigurationError")

RECURSIVE SumSeq(_)
SumSeq(q) == IF q = <<>> THEN 0 ELSE Head(q) + SumSeq(Tail(q))

\* util.get_combined_dim(combination, [tensor_1_dim, tensor_2_dim])
GetCombinedDim(combination, dims) ==
    LET pieces == Split(combination)
        each == [i \in 1..Len(pieces) |-> CombinationDim(pieces[i], dims)]
    IN IF \E i \in 1..Len(pieces) : each[i].err # "none"
       THEN Raise("ConfigurationError")
       ELSE Ok(SumSeq([i \in 1..Len(pieces) |-> each[i].val]))

\* Activation.by_name(name)(): the registry of activation objects
ActivationNames == {"linear", "relu"}
ActivationByName(name) == IF name = "linear" THEN "Linear" ELSE "ReLU"
Activations == {ActivationByName(n) : n \in ActivationNames}
DefaultActivation == ActivationByName("linear")

---------------------------------------------------------------------------
\* Tensor operations

Min(a, b) == IF a < b THEN a ELSE b
Max(a, b) == IF a < b THEN b ELSE a

\* w[a:b] with Python's clamping of the slice to the sequence
Slice(w, a, b) ==
    LET lo == Min(a, Len(w))
        hi == Min(b, Len(w))
    IN IF hi <= lo THEN <<>> ELSE SubSeq(w, lo + 1, hi)

\* tensor.shape[-1] of a [batch, len, d] tensor
LastDim(t) == Len(t[1][1])

Dot(u, v) == SumSeq([k \in 1..Len(u) |-> u[k] * v[k]])

\* torch.matmul of a [batch, len, d] tensor and a [d] vector: [batch, len]
MatVec(t, v) ==
    IF LastDim(t) # Len(v) THEN Raise("RuntimeError")
    ELSE Ok([b \in 1..Len(t) |-> [i \in 1..Len(t[b]) |-> Dot(t[b][i], v)]])

\* m.unsqueeze(dim=2): [batch, len] -> [batch, len, 1]
Unsqueeze2(m) == [b \in 1..Len(m) |-> [i \in 1..Len(m[b]) |-> <<m[b][i]>>]]

\* m.unsqueeze(dim=1): [batch, len] -> [batch, 1, len]
Unsqueeze1(m) == [b \in 1..Len(m) |-> <<m[b]>>]

\* tensor * vector, broadcast over the last axis
MulLast(t, v) ==
    LET d == LastDim(t)
        n == Len(v)
    IN IF d = n \/ n = 1 \/ d = 1
       THEN Ok([b \in 1..Len(t) |-> [i \in 1..Len(t[b]) |->
                [k \in 1..(IF d = 1 THEN n ELSE d) |->
                    t[b][i][IF d = 1 THEN 1 ELSE k] * v[IF n = 1 THEN 1 ELSE k]]]])
       ELSE Raise("RuntimeError")

\* tensor.permute(0, 2, 1).contiguous(): [batch, len, d] -> [batch, d, len]
Permute021(t) ==
    [b \in 1..Len(t) |-> [k \in 1..LastDim(t) |-> [j \in 1..Len(t[b]) |-> t[b][j][k]]]]

\* torch.matmul of [batch, len_1, k] and [batch, k', len_2]: inner sizes must agree
BatchMatmul(a, m) ==
    IF LastDim(a) # Len(m[1]) THEN Raise("RuntimeError")
    ELSE Ok([b \in 1..Len(a) |-> [i \in 1..Len(a[b]) |-> [j \in 1..Len(m[b][1]) |->
                SumSeq([k \in 1..Len(m[b]) |-> a[b][i][k] * m[b][k][j]])]]])

\* One entry of a tensor broadcast to a larger shape (axes of size 1 repeat).
At(t, b, i, j) ==
    LET row == t[b][IF Len(t[b]) = 1 THEN 1 ELSE i]
    IN row[IF Len(row) = 1 THEN 1 ELSE j]

\* a + b + c with broadcasting over axes 1 and 2
BroadcastAdd3(x, y, z) ==
    LET n1 == Max(Max(Len(x[1]), Len(y[1])), Len(z[1]))
        n2 == Max(Max(Len(x[1][1]), Len(y[1][1])), Len(z[1][1]))
    IN [b \in 1..Len(x) |-> [i \in 1..n1 |-> [j \in 1..n2 |->
            At(x, b, i, j) + At(y, b, i, j) + At(z, b, i, j)]]]

---------------------------------------------------------------------------
\* forward

\* A copy-and-paste slip: the third slice taken where the second one is
WeightSlicesRepeated(w, d) == <<Slice(w, 0, d), Slice(w, d, 2 * d), Slice(w, d, 2 * d)>>

\* The three slices forward takes of the weight vector: w[:d], w[d:2*d], w[2*d:3*d]
WeightSlices(w, d) == <<Slice(w, 0, d), Slice(w, d, 2 * d), Slice(w, 2 * d, 3 * d)>>

\* The body of forward after its assertions
Scores(w, d, tensor_1, tensor_2) ==
    LET ws == WeightSlices(w, d)
        sim_1 == MatVec(tensor_1, ws[1])
        sim_2 == MatVec(tensor_2, ws[2])
        sim_1_temp == MulLast(tensor_1, ws[3])
        sim_2_temp == Permute021(tensor_2)
        sim_1_2 == BatchMatmul(sim_1_temp.val, sim_2_temp)
    IN IF sim_1.err # "none" THEN Raise(sim_1.err)
       ELSE IF sim_2.err # "none" THEN Raise(sim_2.err)
       ELSE IF sim_1_temp.err # "none" THEN Raise(sim_1_temp.err)
       ELSE IF sim_1_2.err # "none" THEN Raise(sim_1_2.err)
       ELSE Ok(BroadcastAdd3(Unsqueeze2(sim_1.val), Unsqueeze1(sim_2.val), sim_1_2.val))

\* forward without its first assertion
SimilarityNoShapeAssert(w, part, tensor_1, tensor_2) ==
    LET d == Len(w) \div part
    IN IF Len(w) % part # 0 THEN Raise("AssertionError")
       ELSE Scores(w, d, tensor_1, tensor_2)

\* What forward returns or raises, given the parameters it reads
Similarity(w, part, tensor_1, tensor_2) ==
    IF LastDim(tensor_1) * part # Len(w) THEN Raise("AssertionError")
    ELSE LET d == Len(w) \div part
         IN IF Len(w) % part # 0 THEN Raise("AssertionError")
            ELSE Scores(w, d, tensor_1, tensor_2)

\* An activation object applied to one score
Activate(activation, v) == IF activation = "ReLU" THEN Max(v, 0) ELSE v

\* forward as the class docstring describes it: the bias added and the
\* activation applied to every score
forward_documented(s, tensor_1, tensor_2) ==
    /\ status[s] = "ready"
    /\ call' = [op |-> "forward", obj |-> s, args |-> <<tensor_1, tensor_2>>]
    /\ LET r == Similarity(self[s]._weight_vector, self[s]._part, tensor_1, tensor_2)
       IN ret' = IF r.err # "none" THEN r
                 ELSE Ok([b \in 1..Len(r.val) |-> [i \in 1..Len(r.val[b]) |->
                          [j \in 1..Len(r.val[b][i]) |->
                              Activate(self[s]._activation,
                                       r.val[b][i][j] + self[s]._bias[1])]]])
    /\ UNCHANGED <<status, self>>

\* forward that records the three-way split it uses on the object
forward_sets_part(s, tensor_1, tensor_2) ==
    /\ status[s] = "ready"
    /\ call' = [op |-> "forward", obj |-> s, args |-> <<tensor_1, tensor_2>>]
    /\ ret' = Similarity(self[s]._weight_vector, self[s]._part, tensor_1, tensor_2)
    /\ self' = [self EXCEPT ![s]._part = 3]
    /\ UNCHANGED status

forward(s, tensor_1, tensor_2) ==
    /\ status[s] = "ready"
    /\ call' = [op |-> "forward", obj |-> s, args |-> <<tensor_1, tensor_2>>]
    /\ ret' = Similarity(self[s]._weight_vector, self[s]._part, tensor_1, tensor_2)
    /\ UNCHANGED <<status, self>>

---------------------------------------------------------------------------
\* reset_parameters

\* The bound with the fan-in alone: sqrt(6 / n)
StdFloorFanIn(n) ==
    CHOOSE k \in 0..(3 * Scale) :
        /\ k * k * n <= 6 * Scale * Scale
        /\ (k + 1) * (k + 1) * n > 6 * Scale * Scale

\* floor(Scale * sqrt(6 / (n + 1))): the largest weight, in 1/Scale units, that
\* uniform_(-std, std) can produce
StdFloor(n) ==
    CHOOSE k \in 0..(3 * Scale) :
        /\ k * k * (n + 1) <= 6 * Scale * Scale
        /\ (k + 1) * (k + 1) * (n + 1) > 6 * Scale * Scale

\* Every outcome of self._weight_vector.data.uniform_(-std, std) on n entries
UniformDraws(n) == [1..n -> (0 - StdFloor(n))..StdFloor(n)]

\* The object after reset_parameters, the random draw given
ResetParameters(me, draw) ==
    [me EXCEPT !._weight_vector = draw,
               !._bias = [k \in 1..Len(@) |-> 0]]

reset_parameters(s) ==
    /\ status[s] = "ready"
    /\ \E draw \in UniformDraws(Len(self[s]._weight_vector)) :
           self' = [self EXCEPT ![s] = ResetParameters(@, draw)]
    /\ call' = [op |-> "reset_parameters", obj |-> s, args |-> <<>>]
    /\ ret' = Ok(<<>>)
    /\ UNCHANGED status

---------------------------------------------------------------------------
\* __init__

\* An object no attribute has been set on
Blank ==
    [attrs |-> {}, _combination |-> <<>>, _part |-> 0, _weight_vector |-> <<>>,
     _bias |-> <<>>, _activation |-> "unset"]

\* torch.Tensor(n): n entries of whatever the memory held; reset_parameters
\* overwrites every one of them before anything reads them
Uninitialized(n) == [k \in 1..n |-> 0]

\* A constructor that sizes the weight vector itself and validates nothing
InitSelfUnvalidated(tensor_1_dim, tensor_2_dim, combination, activation) ==
    Ok([Blank EXCEPT !._combination = combination,
                     !._part = Len(Split(combination)),
                     !._weight_vector =
                         Uninitialized(Len(Split(combination))
                                       * Max(tensor_1_dim, tensor_2_dim)),
                     !._bias = Uninitialized(1),
                     !._activation = activation,
                     !.attrs = {"_combination", "_part", "_weight_vector", "_bias",
                                "_activation"}])

\* A constructor that gives the bias one entry per weight
InitSelfWideBias(tensor_1_dim, tensor_2_dim, combination, activation) ==
    LET named == [Blank EXCEPT !._combination = combination,
                               !._part = Len(Split(combination)),
                               !.attrs = {"_combination", "_part"}]
        combined_dim == GetCombinedDim(combination, <<tensor_1_dim, tensor_2_dim>>)
    IN IF combined_dim.err # "none"
       THEN [err |-> combined_dim.err, val |-> named]
       ELSE Ok([named EXCEPT !._weight_vector = Uninitialized(combined_dim.val),
                             !._bias = Uninitialized(combined_dim.val),
                             !._activation = activation,
                             !.attrs = @ \cup {"_weight_vector", "_bias", "_activation"}])

\* The constructor up to, and without, its call of reset_parameters: the object
\* as far as it got, and the error that stopped it
InitSelf(tensor_1_dim, tensor_2_dim, combination, activation) ==
    LET named == [Blank EXCEPT !._combination = combination,
                               !._part = Len(Split(combination)),
                               !.attrs = {"_combination", "_part"}]
        combined_dim == GetCombinedDim(combination, <<tensor_1_dim, tensor_2_dim>>)
    IN IF combined_dim.err # "none"
       THEN [err |-> combined_dim.err, val |-> named]
       ELSE Ok([named EXCEPT !._weight_vector = Uninitialized(combined_dim.val),
                             !._bias = Uninitialized(1),
                             !._activation = activation,
                             !.attrs = @ \cup {"_weight_vector", "_bias", "_activation"}])

\* cls(...) on object s, recorded as the call c
Construct(s, tensor_1_dim, tensor_2_dim, combination, activation, c) ==
    LET made == InitSelf(tensor_1_dim, tensor_2_dim, combination, activation)
    IN /\ call' = c
       /\ IF made.err # "none"
          THEN /\ self' = [self EXCEPT ![s] = made.val]
               /\ status' = [status EXCEPT ![s] = "failed"]
               /\ ret' = Raise(made.err)
          ELSE /\ \E draw \in UniformDraws(Len(made.val._weight_vector)) :
                      self' = [self EXCEPT ![s] = ResetParameters(made.val, draw)]
               /\ status' = [status EXCEPT ![s] = "ready"]
               /\ ret' = Ok(<<>>)

__init__(s, tensor_1_dim, tensor_2_dim, combination, activation) ==
    /\ status[s] = "none"
    /\ Construct(s, tensor_1_dim, tensor_2_dim, combination, activation,
                 [op |-> "__init__", obj |-> s,
                  args |-> [tensor_1_dim |-> tensor_1_dim, tensor_2_dim |-> tensor_2_dim,
                            combination |-> combination, activation |-> activation]])

---------------------------------------------------------------------------
\* from_params

\* A Params object: the keys it still holds and their values (the value of a key
\* it does not hold is a fixed filler that nothing reads)
RequiredKeys == {"tensor_1_dim", "tensor_2_dim"}
OptionalKeys == {"combination", "activation"}
UnknownKeys == {"bias"}
Keys == RequiredKeys \cup OptionalKeys \cup UnknownKeys

ParamsSet ==
    {[keys |-> ks,
      tensor_1_dim |-> d1, tensor_2_dim |-> d2, combination |-> c, activation |-> a] :
        ks \in SUBSET Keys, d1 \in 0..MaxDim, d2 \in 0..MaxDim,
        c \in Combinations \cup {<<>>}, a \in ActivationNames \cup {""}}

WellFormedParams ==
    {p \in ParamsSet :
        /\ (p.tensor_1_dim = 0) <=> ("tensor_1_dim" \notin p.keys)
        /\ (p.tensor_2_dim = 0) <=> ("tensor_2_dim" \notin p.keys)
        /\ (p.combination = <<>>) <=> ("combination" \notin p.keys)
        /\ (p.activation = "") <=> ("activation" \notin p.keys)}

\* params.pop(key, ...): the Params object left once key is taken out
Popped(params, key) == [params EXCEPT !.keys = @ \ {key}]

\* from_params without params.assert_empty
FromParamsArgsLenient(params) ==
    IF "tensor_1_dim" \notin params.keys THEN Raise("ConfigurationError")
    ELSE IF "tensor_2_dim" \notin params.keys THEN Raise("ConfigurationError")
    ELSE Ok([tensor_1_dim |-> params.tensor_1_dim,
             tensor_2_dim |-> params.tensor_2_dim,
             combination |-> IF "combination" \in params.keys
                             THEN params.combination ELSE DefaultCombination,
             activation |-> ActivationByName(IF "activation" \in params.keys
                                             THEN params.activation ELSE "linear")])

\* The arguments from_params passes to cls(...), or the error raised before
FromParamsArgs(params) ==
    IF "tensor_1_dim" \notin params.keys THEN Raise("ConfigurationError")
    ELSE LET p1 == Popped(params, "tensor_1_dim") IN
    IF "tensor_2_dim" \notin p1.keys THEN Raise("ConfigurationError")
    ELSE LET p2 == Popped(p1, "tensor_2_dim")
             combination == IF "combination" \in p2.keys
                            THEN p2.combination ELSE DefaultCombination
             p3 == Popped(p2, "combination")
             activation == ActivationByName(IF "activation" \in p3.keys
                                            THEN p3.activation ELSE "linear")
             p4 == Popped(p3, "activation")
         IN IF p4.keys # {} THEN Raise("ConfigurationError")
            ELSE Ok([tensor_1_dim |-> params.tensor_1_dim,
                     tensor_2_dim |-> params.tensor_2_dim,
                     combination |-> combination, activation |-> activation])

from_params(s, params) ==
    /\ status[s] = "none"
    /\ LET a == FromParamsArgs(params)
           c == [op |-> "from_params", obj |-> s, args |-> params]
       IN IF a.err # "none"
          THEN /\ call' = c
               /\ ret' = Raise(a.err)
               /\ UNCHANGED <<status, self>>
          ELSE Construct(s, a.val.tensor_1_dim, a.val.tensor_2_dim, a.val.combination,
                         a.val.activation, c)

---------------------------------------------------------------------------
\* The training optimizer: one in-place update of the two parameters

OptimizerStep(s, dw, db) ==
    /\ status[s] = "ready"
    /\ <<dw, db>> # <<0, 0>>
    /\ \A k \in 1..Len(self[s]._weight_vector) :
           self[s]._weight_vector[k] + dw \in (0 - MaxAbsParam)..MaxAbsParam
    /\ \A k \in 1..Len(self[s]._bias) :
           self[s]._bias[k] + db \in (0 - MaxAbsParam)..MaxAbsParam
    /\ self' = [self EXCEPT ![s]._weight_vector = [k \in 1..Len(@) |-> @[k] + dw],
                            ![s]._bias = [k \in 1..Len(@) |-> @[k] + db]]
    /\ call' = [op |-> "optimizer_step", obj |-> s, args |-> <<>>]
    /\ ret' = Ok(<<>>)
    /\ UNCHANGED status

---------------------------------------------------------------------------
\* Input tensors

\* The [batch, len, d] tensor whose entries count up from start
Ramp(batch, len, d, start) ==
    [b \in 1..batch |-> [i \in 1..len |-> [k \in 1..d |->
        start + ((b - 1) * len + (i - 1)) * d + (k - 1)]]]

\* Pairs tensor_1, tensor_2 of one batch size: of one feature size in every
\* shape, and of two feature sizes in the smallest shape
ForwardArgs ==
    {<<Ramp(batch, len_1, d, 1), Ramp(batch, len_2, d, 3)>> :
        batch \in 1..MaxBatch, len_1 \in 1..MaxLen, len_2 \in 1..MaxLen,
        d \in 1..MaxDim}
    \cup {<<Ramp(1, 1, d_1, 1), Ramp(1, 1, d_2, 3)>> :
             d_1 \in 1..MaxDim, d_2 \in 1..MaxDim}

---------------------------------------------------------------------------
\* One scorer, from its construction on

NoCall == [op |-> "none", obj |-> 0, args |-> <<>>]

Init ==
    /\ status = [s \in Scorers |-> "none"]
    /\ self = [s \in Scorers |-> Blank]
    /\ call = NoCall
    /\ ret = Ok(<<>>)

Next ==
    \/ \E d1 \in 1..MaxDim, d2 \in 1..MaxDim, c \in Combinations, a \in Activations :
           __init__(1, d1, d2, c, a)
    \/ \E p \in WellFormedParams : from_params(1, p)
    \/ reset_parameters(1)
    \/ \E dw \in {-1, 0, 1}, db \in {-1, 0, 1} : OptimizerStep(1, dw, db)
    \/ \E x \in ForwardArgs : forward(1, x[1], x[2])

Spec == Init /\ [][Next]_vars

---------------------------------------------------------------------------
\* Two scorers that hold the same weights and differ in bias and activation

PairBiases == {0, 1}

\* Weight vectors of length n: each unit vector, all ones, and for n = 6 the
\* vector [1,0, 0,1, 1,1]
PairWeights(n) ==
    {[k \in 1..n |-> IF k = j THEN 1 ELSE 0] : j \in 1..n}
    \cup {[k \in 1..n |-> 1]}
    \cup (IF n = 6 THEN {<<1, 0, 0, 1, 1, 1>>} ELSE {})

Loaded(combination, n, w, b, a) ==
    [attrs |-> {"_combination", "_part", "_weight_vector", "_bias", "_activation"},
     _combination |-> combination, _part |-> Len(Split(combination)),
     _weight_vector |-> w, _bias |-> <<b>>, _activation |-> a]

InitPair ==
    /\ status = [s \in Scorers |-> "ready"]
    /\ \E c \in Combinations, d \in 1..MaxDim :
           LET n == GetCombinedDim(c, <<d, d>>)
           IN /\ n.err = "none"
              /\ \E w \in PairWeights(n.val),
                    b1 \in PairBiases, b2 \in PairBiases,
                    a1 \in Activations, a2 \in Activations :
                     self = [s \in Scorers |->
                                IF s = 1 THEN Loaded(c, n.val, w, b1, a1)
                                         ELSE Loaded(c, n.val, w, b2, a2)]
    /\ call = NoCall
    /\ ret = Ok(<<>>)

NextPair == \E s \in Scorers, x \in ForwardArgs : forward(s, x[1], x[2])

SpecPair == InitPair /\ [][NextPair]_vars

---------------------------------------------------------------------------
\* Properties

\* The object the last call was made on
Me == self[call.obj]

ConstructorCalled == call.op \in {"__init__", "from_params"}

\* The combination string the last constructing call asked for
AskedCombination ==
    IF call.op = "from_params" /\ "combination" \notin call.args.keys
    THEN DefaultCombination
    ELSE call.args.combination

HasUnrecognizedToken(c) == \E i \in 1..Len(Split(c)) : Split(c)[i] \notin RecognizedTokens

\* The number of comma-separated tokens of c: its commas, and one
TokenCount(c) == Cardinality({i \in 1..Len(c) : c[i] = ","}) + 1

\* f[1] + ... + f[n]
RECURSIVE SumUpTo(_, _)
SumUpTo(f, n) == IF n = 0 THEN 0 ELSE f[n] + SumUpTo(f, n - 1)

C2_ShapeAssertion ==
    (call.op = "forward" /\ LastDim(call.args[1]) * Me._part # Len(Me._weight_vector)) =>
        ret = Raise("AssertionError")

C2_Witness ==
    /\ call.op = "forward"
    /\ LastDim(call.args[1]) * Me._part # Len(Me._weight_vector)
    /\ LastDim(call.args[1]) = LastDim(call.args[2])
    /\ ret.err = "AssertionError"

\* C3: constructing with a combination that has a token outside x, y, x*y, x+y,
\* x-y, x/y raises ConfigurationError before the weight vector or the bias is
\* allocated, and no ready scorer ever holds such a combination.
C3_UnrecognizedToken ==
    /\ (ConstructorCalled /\ HasUnrecognizedToken(AskedCombination)) =>
          /\ ret = Raise("ConfigurationError")
          /\ status[call.obj] # "ready"
          /\ Me.attrs \cap {"_weight_vector", "_bias"} = {}
          /\ Me._weight_vector = <<>>
          /\ Me._bias = <<>>
    /\ \A s \in Scorers :
          status[s] = "ready" => ~HasUnrecognizedToken(self[s]._combination)

C3_Witness ==
    /\ call.op = "__init__"
    /\ call.args.combination = Combo_x_z
    /\ status[call.obj] = "failed"
    /\ Me.attrs = {"_combination", "_part"}

FreshlyReset(me) ==
    /\ \A k \in 1..Len(me._weight_vector) :
          me._weight_vector[k] * me._weight_vector[k] * (Len(me._weight_vector) + 1)
              <= 6 * Scale * Scale
    /\ \A k \in 1..Len(me._bias) : me._bias[k] = 0

\* C5: after construction and after every call of reset_parameters, whatever came
\* before, every weight is within [-std, std], the bias is 0, and the call left
\* the length of the weight vector as it was.
C5_ResetParameters ==
    [][/\ (call'.op \in {"__init__", "from_params"} /\ status'[call'.obj] = "ready") =>
              FreshlyReset(self'[call'.obj])
       /\ call'.op = "reset_parameters" =>
              /\ FreshlyReset(self'[call'.obj])
              /\ Len(self'[call'.obj]._weight_vector)
                     = Len(self[call'.obj]._weight_vector)
              /\ Len(self'[call'.obj]._bias) = Len(self[call'.obj]._bias)]_vars

C5_Witness ==
    /\ call.op = "reset_parameters"
    /\ \E k \in 1..Len(Me._weight_vector) : Me._weight_vector[k] # 0
    /\ Len(Me._weight_vector) = 4

\* C6: a call of forward, whether it returns or raises, leaves the weight vector,
\* the bias, the combination, part and the activation as they were, and a second
\* call with the same inputs returns what the first did.
C6_ForwardFrame ==
    [][/\ call'.op = "forward" => (self' = self /\ status' = status)
       /\ (call.op = "forward" /\ call' = call) => ret' = ret]_vars

C6_Witness ==
    /\ call.op = "forward"
    /\ ret.err = "none"
    /\ Me._bias # <<0>>

\* C7: from_params builds a scorer only from a configuration that holds
\* tensor_1_dim and tensor_2_dim and no key besides these, combination and
\* activation; it fails when a required key is absent or an unrecognized key is
\* left; an absent combination is "x,y" and an absent activation is linear.
C7_FromParams ==
    call.op = "from_params" =>
        LET p == call.args
            strict == RequiredKeys \subseteq p.keys
                      /\ p.keys \subseteq (RequiredKeys \cup OptionalKeys)
        IN /\ status[call.obj] = "ready" =>
                 /\ strict
                 /\ Me._combination =
                        (IF "combination" \in p.keys THEN p.combination ELSE Combo_x_y)
                 /\ Me._activation =
                        (IF "activation" \in p.keys /\ p.activation = "relu"
                         THEN "ReLU" ELSE "Linear")
           /\ ~strict => (ret.err = "ConfigurationError" /\ status[call.obj] = "none")

C7_Witness ==
    /\ call.op = "from_params"
    /\ call.args.keys = RequiredKeys
    /\ status[call.obj] = "ready"
    /\ Me._combination = Combo_x_y
    /\ Me._activation = "Linear"

\* w^T [x; y; x*y] + b
DocumentedScore(w, b, x, y) ==
    LET d == Len(x)
        combined == x \o y \o [k \in 1..d |-> x[k] * y[k]]
    IN SumUpTo([k \in 1..(3 * d) |-> w[k] * combined[k]], 3 * d) + b

\* C8: with combination "x,y,x*y", the score forward returns for x = tensor_1[b,i,:]
\* and y = tensor_2[b,j,:] is activation(w^T [x; y; x*y] + b).
C8_DocumentedScore ==
    (call.op = "forward" /\ Me._combination = Combo_x_y_xy /\ ret.err = "none") =>
        \A b \in 1..Len(ret.val) : \A i \in 1..Len(ret.val[b]) :
            \A j \in 1..Len(ret.val[b][i]) :
                ret.val[b][i][j] =
                    Activate(Me._activation,
                             DocumentedScore(Me._weight_vector, Me._bias[1],
                                             call.args[1][b][i], call.args[2][b][j]))

C10_ThreeSlicesCover ==
    (call.op = "forward" /\ LastDim(call.args[1]) * Me._part = Len(Me._weight_vector)) =>
        LET d == LastDim(call.args[1])
            ws == WeightSlices(Me._weight_vector, d)
        IN /\ \A n \in 1..3 : Len(ws[n]) = d
           /\ ws[1] \o ws[2] \o ws[3] = Me._weight_vector

====
